---- MODULE Spec2Model ----
(***************************************************************************)
(* Model of templates/python/text_transform/main.py.                       *)
(*                                                                         *)
(* One run of the script is a state machine over the lines of main():      *)
(* argument-count check, json.loads, the two dict.get calls, the dispatch  *)
(* on `operation`, and print(json.dumps(...)).  An uncaught exception ends  *)
(* the process with status 1 and a traceback on standard error.            *)
(*                                                                         *)
(* Representation.                                                         *)
(*   - A Python str is a sequence of code points; a code point is written  *)
(*     as a one-element name ("a", "U+00DF").                              *)
(*   - A Python value is a record [t, v]: t is the type name, v the        *)
(*     payload (code points of a str, the decimal lexeme of an int, the    *)
(*     lexemes of a list of ints).  A parsed document also carries d, the  *)
(*     key -> value map of a dict.                                         *)
(*   - A command-line argument and the text written to standard output     *)
(*     are sequences of JSON lexical tokens [k, v].                        *)
(***************************************************************************)
EXTENDS Integers, Sequences, FiniteSets, TLC

VARIABLES argv, pc, input_data, text, operation, result, stdout, stderr,
          exit_status, called

vars == <<argv, pc, input_data, text, operation, result, stdout, stderr,
          exit_status, called>>

\* ------------------------------------------------------------------ bounds
MaxLen == 2
MaxExtra == 2

\* ------------------------------------------------------- Python values
StrV(s) == [t |-> "str", v |-> s]
IntV(n) == [t |-> "int", v |-> <<n>>]
ListV(ns) == [t |-> "list", v |-> ns]
NoneV == [t |-> "None", v |-> <<>>]
Unset == [t |-> "unset", v |-> <<>>]

TEXT == <<"t", "e", "x", "t">>
OPERATION == <<"o", "p", "e", "r", "a", "t", "i", "o", "n">>
RESULT == <<"r", "e", "s", "u", "l", "t">>
UPPER == <<"u", "p", "p", "e", "r">>
LOWER == <<"l", "o", "w", "e", "r">>
REVERSE == <<"r", "e", "v", "e", "r", "s", "e">>

\* ------------------------------------------------- str.upper / str.lower
\* The Unicode full case mappings Python applies, restricted to the code
\* points the model draws text from.  U+00DF (sharp s) has the two code
\* point uppercase "SS" and is its own lowercase.
UpperTable ==
  [c \in {"a", "A", "s", "S", "U+00DF", "h", "H", "e", "E", "l", "L",
          "o", "O", "i", "I"} |->
     CASE c \in {"a", "A"} -> <<"A">>
       [] c \in {"s", "S"} -> <<"S">>
       [] c = "U+00DF" -> <<"S", "S">>
       [] c \in {"h", "H"} -> <<"H">>
       [] c \in {"e", "E"} -> <<"E">>
       [] c \in {"l", "L"} -> <<"L">>
       [] c \in {"o", "O"} -> <<"O">>
       [] c \in {"i", "I"} -> <<"I">>]

LowerTable ==
  [c \in DOMAIN UpperTable |->
     CASE c \in {"a", "A"} -> <<"a">>
       [] c \in {"s", "S"} -> <<"s">>
       [] c = "U+00DF" -> <<"U+00DF">>
       [] c \in {"h", "H"} -> <<"h">>
       [] c \in {"e", "E"} -> <<"e">>
       [] c \in {"l", "L"} -> <<"l">>
       [] c \in {"o", "O"} -> <<"o">>
       [] c \in {"i", "I"} -> <<"i">>]

toupper(c) == IF c \in DOMAIN UpperTable THEN UpperTable[c] ELSE <<c>>

tolower(c) == IF c \in DOMAIN LowerTable THEN LowerTable[c] ELSE <<c>>

RECURSIVE upper_from(_, _)
upper_from(s, i) ==
  IF i > Len(s) THEN <<>> ELSE toupper(s[i]) \o upper_from(s, i + 1)

RECURSIVE lower_from(_, _)
lower_from(s, i) ==
  IF i > Len(s) THEN <<>> ELSE tolower(s[i]) \o lower_from(s, i + 1)

\* str.swapcase() in place of str.upper(): the wrong method of the same family
RECURSIVE swapcase_from(_, _)
swapcase_from(s, i) ==
  IF i > Len(s) THEN <<>>
  ELSE (IF tolower(s[i]) = <<s[i]>> THEN toupper(s[i]) ELSE tolower(s[i]))
       \o swapcase_from(s, i + 1)

str_upper_swapcase(s) == swapcase_from(s, 1)

\* text.upper()
str_upper(s) == upper_from(s, 1)

\* text.lower()
str_lower(s) == lower_from(s, 1)

\* text[::-1]: the extended slice with step -1 and default bounds walks the
\* indices len-1, len-2, ..., 0 (here Len(s), ..., 1).
RECURSIVE slice_down(_, _)
slice_down(s, i) ==
  IF i < 1 THEN <<>> ELSE <<s[i]>> \o slice_down(s, i - 1)

\* text[-2::-1]: the slice starts one index too low
reverse_slice_short(s) == slice_down(s, Len(s) - 1)

reverse_slice(s) == slice_down(s, Len(s))

\* ------------------------------------------------------------ JSON tokens
Tok(k) == [k |-> k, v |-> <<>>]
LBRACE == Tok("{")
RBRACE == Tok("}")
LBRACKET == Tok("[")
RBRACKET == Tok("]")
COLON == Tok(":")
COMMA == Tok(",")
NULL == Tok("null")
NEWLINE == Tok("\\n")
StringTok(s) == [k |-> "string", v |-> s]
NumberTok(n) == [k |-> "number", v |-> <<n>>]
\* a lexeme that is no JSON token, such as the bad of {bad
BareTok(w) == [k |-> "bare", v |-> <<w>>]

\* ------------------------------------------------------------- json.loads
\* Recursive descent over the tokens of the argument.  The grammar covers
\* the documents the model draws its arguments from: scalars, arrays of
\* numbers, and objects whose member values are scalars or such arrays.
\* A parse returns [ok, val, next]; ok = FALSE is JSONDecodeError.
ParseFail == [ok |-> FALSE, val |-> NoneV, next |-> 0]

IsScalarTok(tok) == tok.k \in {"string", "number", "null"}

ScalarOf(tok) ==
  CASE tok.k = "string" -> StrV(tok.v)
    [] tok.k = "number" -> [t |-> "int", v |-> tok.v]
    [] tok.k = "null" -> NoneV

RECURSIVE ParseElems(_, _, _)
ParseElems(toks, i, acc) ==
  IF i + 1 > Len(toks) \/ toks[i].k # "number" THEN ParseFail
  ELSE LET acc2 == Append(acc, toks[i].v[1]) IN
       IF toks[i + 1].k = "]"
         THEN [ok |-> TRUE, val |-> ListV(acc2), next |-> i + 2]
       ELSE IF toks[i + 1].k = ","
         THEN ParseElems(toks, i + 2, acc2)
       ELSE ParseFail

\* toks[i] is the opening bracket
ParseArray(toks, i) ==
  IF i + 1 <= Len(toks) /\ toks[i + 1].k = "]"
    THEN [ok |-> TRUE, val |-> ListV(<<>>), next |-> i + 2]
    ELSE ParseElems(toks, i + 1, <<>>)

ParseMemberValue(toks, i) ==
  IF i > Len(toks) THEN ParseFail
  ELSE IF IsScalarTok(toks[i])
    THEN [ok |-> TRUE, val |-> ScalarOf(toks[i]), next |-> i + 1]
  ELSE IF toks[i].k = "["
    THEN ParseArray(toks, i)
  ELSE ParseFail

\* a repeated key keeps its last value
DictSet(d, key, val) ==
  [x \in DOMAIN d \cup {key} |-> IF x = key THEN val ELSE d[x]]

RECURSIVE ParseMembers(_, _, _)
ParseMembers(toks, i, d) ==
  IF i + 1 > Len(toks) \/ toks[i].k # "string" \/ toks[i + 1].k # ":"
    THEN ParseFail
  ELSE LET m == ParseMemberValue(toks, i + 2) IN
       IF ~m.ok \/ m.next > Len(toks) THEN ParseFail
       ELSE LET d2 == DictSet(d, toks[i].v, m.val) IN
            IF toks[m.next].k = "}"
              THEN [ok |-> TRUE, val |-> d2, next |-> m.next + 1]
            ELSE IF toks[m.next].k = ","
              THEN ParseMembers(toks, m.next + 1, d2)
            ELSE ParseFail

\* toks[i] is the opening brace
ParseObject(toks, i) ==
  IF i + 1 <= Len(toks) /\ toks[i + 1].k = "}"
    THEN [ok |-> TRUE, val |-> <<>>, next |-> i + 2]
    ELSE ParseMembers(toks, i + 1, <<>>)

\* json.loads(s): one value, then end of input ("Extra data" otherwise).
\* The value carries d, the dict's map (empty for every other type).
json_loads(toks) ==
  IF Len(toks) = 0 THEN [ok |-> FALSE, val |-> Unset @@ [d |-> <<>>]]
  ELSE IF toks[1].k = "{"
    THEN LET r == ParseObject(toks, 1) IN
         IF r.ok /\ r.next = Len(toks) + 1
           THEN [ok |-> TRUE, val |-> [t |-> "dict", v |-> <<>>, d |-> r.val]]
           ELSE [ok |-> FALSE, val |-> Unset @@ [d |-> <<>>]]
    ELSE LET r == ParseMemberValue(toks, 1) IN
         IF r.ok /\ r.next = Len(toks) + 1
           THEN [ok |-> TRUE, val |-> r.val @@ [d |-> <<>>]]
           ELSE [ok |-> FALSE, val |-> Unset @@ [d |-> <<>>]]

\* ------------------------------------------------------------- json.dumps
RECURSIVE DumpElems(_, _)
DumpElems(ns, i) ==
  IF i > Len(ns) THEN <<>>
  ELSE (IF i > 1 THEN <<COMMA>> ELSE <<>>) \o <<NumberTok(ns[i])>>
       \o DumpElems(ns, i + 1)

DumpValue(val) ==
  CASE val.t = "str" -> <<StringTok(val.v)>>
    [] val.t = "int" -> <<NumberTok(val.v[1])>>
    [] val.t = "None" -> <<NULL>>
    [] val.t = "list" -> <<LBRACKET>> \o DumpElems(val.v, 1) \o <<RBRACKET>>

\* json.dumps({"result": result})
json_dumps(res) ==
  <<LBRACE, StringTok(RESULT), COLON>> \o DumpValue(res) \o <<RBRACE>>

\* ----------------------------------------------------------------- main()
\* input_data.get(key, default)
dict_get(d, key, default) == IF key \in DOMAIN d THEN d[key] ELSE default

\* operation == "<name>"
OpIs(op, name) == op.t = "str" /\ op.v = name

\* the dispatch with the "upper" and "lower" branches exchanged
transform_swapped(txt, op) ==
  IF OpIs(op, UPPER) THEN
    IF txt.t = "str" THEN [exc |-> "", val |-> StrV(str_lower(txt.v))]
    ELSE [exc |-> "AttributeError", val |-> Unset]
  ELSE IF OpIs(op, LOWER) THEN
    IF txt.t = "str" THEN [exc |-> "", val |-> StrV(str_upper(txt.v))]
    ELSE [exc |-> "AttributeError", val |-> Unset]
  ELSE IF OpIs(op, REVERSE) THEN
    IF txt.t \in {"str", "list"}
      THEN [exc |-> "", val |-> [t |-> txt.t, v |-> reverse_slice(txt.v)]]
      ELSE [exc |-> "TypeError", val |-> Unset]
  ELSE [exc |-> "", val |-> txt]

\* the dispatch whose final else falls back to the default operation
transform_else_upper(txt, op) ==
  IF OpIs(op, LOWER) THEN
    IF txt.t = "str" THEN [exc |-> "", val |-> StrV(str_lower(txt.v))]
    ELSE [exc |-> "AttributeError", val |-> Unset]
  ELSE IF OpIs(op, REVERSE) THEN
    IF txt.t \in {"str", "list"}
      THEN [exc |-> "", val |-> [t |-> txt.t, v |-> reverse_slice(txt.v)]]
      ELSE [exc |-> "TypeError", val |-> Unset]
  ELSE IF txt.t = "str" THEN [exc |-> "", val |-> StrV(str_upper(txt.v))]
  ELSE [exc |-> "AttributeError", val |-> Unset]

\* the dispatch whose final else rejects the operation
transform_strict(txt, op) ==
  IF OpIs(op, UPPER) THEN
    IF txt.t = "str" THEN [exc |-> "", val |-> StrV(str_upper(txt.v))]
    ELSE [exc |-> "AttributeError", val |-> Unset]
  ELSE IF OpIs(op, LOWER) THEN
    IF txt.t = "str" THEN [exc |-> "", val |-> StrV(str_lower(txt.v))]
    ELSE [exc |-> "AttributeError", val |-> Unset]
  ELSE IF OpIs(op, REVERSE) THEN
    IF txt.t \in {"str", "list"}
      THEN [exc |-> "", val |-> [t |-> txt.t, v |-> reverse_slice(txt.v)]]
      ELSE [exc |-> "TypeError", val |-> Unset]
  ELSE [exc |-> "ValueError", val |-> Unset]

\* Lines 14-21: the dispatch.  exc = "" when no exception is raised.
transform(txt, op) ==
  IF OpIs(op, UPPER) THEN
    IF txt.t = "str" THEN [exc |-> "", val |-> StrV(str_upper(txt.v))]
    ELSE [exc |-> "AttributeError", val |-> Unset]
  ELSE IF OpIs(op, LOWER) THEN
    IF txt.t = "str" THEN [exc |-> "", val |-> StrV(str_lower(txt.v))]
    ELSE [exc |-> "AttributeError", val |-> Unset]
  ELSE IF OpIs(op, REVERSE) THEN
    IF txt.t \in {"str", "list"}
      THEN [exc |-> "", val |-> [t |-> txt.t, v |-> reverse_slice(txt.v)]]
      ELSE [exc |-> "TypeError", val |-> Unset]
  ELSE [exc |-> "", val |-> txt]

\* An uncaught exception: traceback on standard error, exit status 1.
Raise(exc) ==
  /\ stderr' = Append(stderr, exc)
  /\ exit_status' = <<1>>
  /\ pc' = "exited"

\* the usage message printed without file=sys.stderr
CheckArgs_stdout ==
  /\ pc = "argc"
  /\ IF Len(argv) < 2
       THEN /\ stdout' = Append(stdout, BareTok("Usage"))
            /\ exit_status' = <<1>>
            /\ pc' = "exited"
            /\ called' = called \cup {"sys.exit"}
       ELSE /\ pc' = "loads"
            /\ UNCHANGED <<stdout, exit_status, called>>
  /\ UNCHANGED <<argv, input_data, text, operation, result, stderr>>

\* the check written as len(sys.argv) != 2
CheckArgs_exact ==
  /\ pc = "argc"
  /\ IF Len(argv) # 2
       THEN /\ stderr' = Append(stderr, "Usage")
            /\ exit_status' = <<1>>
            /\ pc' = "exited"
            /\ called' = called \cup {"sys.exit"}
       ELSE /\ pc' = "loads"
            /\ UNCHANGED <<stderr, exit_status, called>>
  /\ UNCHANGED <<argv, input_data, text, operation, result, stdout>>

\* Lines 6-8
CheckArgs ==
  /\ pc = "argc"
  /\ IF Len(argv) < 2
       THEN /\ stderr' = Append(stderr, "Usage")
            /\ exit_status' = <<1>>
            /\ pc' = "exited"
            /\ called' = called \cup {"sys.exit"}
       ELSE /\ pc' = "loads"
            /\ UNCHANGED <<stderr, exit_status, called>>
  /\ UNCHANGED <<argv, input_data, text, operation, result, stdout>>

\* a parse failure swallowed: except ValueError: input_data = {}
Loads_lenient ==
  /\ pc = "loads"
  /\ called' = called \cup {"json.loads"}
  /\ LET r == json_loads(argv[2]) IN
       /\ input_data' = IF r.ok THEN r.val
                        ELSE [t |-> "dict", v |-> <<>>, d |-> <<>>]
       /\ pc' = "get_text"
  /\ UNCHANGED <<argv, text, operation, result, stdout, stderr, exit_status>>

\* Line 10
Loads ==
  /\ pc = "loads"
  /\ called' = called \cup {"json.loads"}
  /\ LET r == json_loads(argv[2]) IN
       IF r.ok
         THEN /\ input_data' = r.val
              /\ pc' = "get_text"
              /\ UNCHANGED <<stderr, exit_status>>
         ELSE /\ Raise("JSONDecodeError")
              /\ UNCHANGED input_data
  /\ UNCHANGED <<argv, text, operation, result, stdout>>

\* Line 11
GetText ==
  /\ pc = "get_text"
  /\ IF input_data.t = "dict"
       THEN /\ text' = dict_get(input_data.d, TEXT, StrV(<<>>))
            /\ pc' = "get_operation"
            /\ UNCHANGED <<stderr, exit_status>>
       ELSE /\ Raise("AttributeError")
            /\ UNCHANGED text
  /\ UNCHANGED <<argv, input_data, operation, result, stdout, called>>

\* the default operation taken to be "lower"
GetOperation_lower ==
  /\ pc = "get_operation"
  /\ operation' = dict_get(input_data.d, OPERATION, StrV(LOWER))
  /\ pc' = "dispatch"
  /\ UNCHANGED <<argv, input_data, text, result, stdout, stderr,
                 exit_status, called>>

\* Line 12
GetOperation ==
  /\ pc = "get_operation"
  /\ operation' = dict_get(input_data.d, OPERATION, StrV(UPPER))
  /\ pc' = "dispatch"
  /\ UNCHANGED <<argv, input_data, text, result, stdout, stderr,
                 exit_status, called>>

\* Lines 14-21
Transform ==
  /\ pc = "dispatch"
  /\ LET r == transform(text, operation) IN
       IF r.exc = ""
         THEN /\ result' = r.val
              /\ pc' = "print"
              /\ UNCHANGED <<stderr, exit_status>>
         ELSE /\ Raise(r.exc)
              /\ UNCHANGED result
  /\ UNCHANGED <<argv, input_data, text, operation, stdout, called>>

\* Lines 23-24, then the normal end of the script
PrintResult ==
  /\ pc = "print"
  /\ stdout' = stdout \o json_dumps(result) \o <<NEWLINE>>
  /\ called' = called \cup {"json.dumps", "print"}
  /\ exit_status' = <<0>>
  /\ pc' = "exited"
  /\ UNCHANGED <<argv, input_data, text, operation, result, stderr>>

\* ----------------------------------------------------------------- inputs
PROG == <<StringTok(<<"m", "a", "i", "n", ".", "p", "y">>)>>

Alphabet == {"a", "U+00DF", "S"}

Hello == <<"H", "e", "l", "l", "o">>
Hi == <<"H", "i">>
BOGUS == <<"b", "o", "g", "u", "s">>

Strings == UNION {[1..n -> Alphabet] : n \in 0..MaxLen} \cup {Hello, Hi}

\* a field that the request does not have
Absent == [t |-> "absent", v |-> <<>>]

StringTexts == {StrV(s) : s \in Strings}
OtherTexts == {IntV("5"), NoneV, ListV(<<"1", "2">>)}
TextOpts == {Absent} \cup StringTexts \cup OtherTexts

KnownOps == {StrV(UPPER), StrV(LOWER), StrV(REVERSE)}
OtherOps == {StrV(BOGUS), StrV(<<>>), IntV("7"), NoneV}
OpOpts == {Absent} \cup KnownOps \cup OtherOps

Member(key, val) ==
  IF val = Absent THEN <<>> ELSE <<<<StringTok(key), COLON>> \o DumpValue(val)>>

RECURSIVE JoinMembers(_, _)
JoinMembers(ms, i) ==
  IF i > Len(ms) THEN <<>>
  ELSE (IF i > 1 THEN <<COMMA>> ELSE <<>>) \o ms[i] \o JoinMembers(ms, i + 1)

Obj(ms) == <<LBRACE>> \o JoinMembers(ms, 1) \o <<RBRACE>>

\* The JSON objects whose "text" is t and whose "operation" is o: the two
\* member orders, an unrelated extra member, and an earlier "text" member
\* that the later one replaces.
RequestDocs(t, o) ==
  { Obj(Member(TEXT, t) \o Member(OPERATION, o)),
    Obj(Member(OPERATION, o) \o Member(TEXT, t)),
    Obj(Member(TEXT, t) \o Member(BOGUS, NoneV) \o Member(OPERATION, o)) }
  \cup (IF t = Absent THEN {}
        ELSE {Obj(Member(TEXT, StrV(<<"a">>)) \o Member(TEXT, t)
                  \o Member(OPERATION, o))})

ObjectArgs == UNION {RequestDocs(t, o) : t \in TextOpts, o \in OpOpts}

\* well-formed JSON documents that are not objects
NonObjectArgs ==
  { <<LBRACKET, NumberTok("1"), COMMA, NumberTok("2"), RBRACKET>>,
    <<LBRACKET, RBRACKET>>,
    <<StringTok(Hello)>>,
    <<NumberTok("5")>>,
    <<NULL>> }

\* arguments that are not well-formed JSON: {bad, the empty string, {"text":,
\* {"text" "a"}, {"text":"a",}, {}}, [1,], {"text":"a"} {}
MalformedArgs ==
  { <<LBRACE, BareTok("bad")>>,
    <<>>,
    <<LBRACE, StringTok(TEXT), COLON>>,
    <<LBRACE, StringTok(TEXT), StringTok(<<"a">>), RBRACE>>,
    <<LBRACE, StringTok(TEXT), COLON, StringTok(<<"a">>), COMMA, RBRACE>>,
    <<LBRACE, RBRACE, RBRACE>>,
    <<LBRACKET, NumberTok("1"), COMMA, RBRACKET>>,
    <<LBRACE, StringTok(TEXT), COLON, StringTok(<<"a">>), RBRACE,
      LBRACE, RBRACE>> }

Args == ObjectArgs \cup NonObjectArgs \cup MalformedArgs

\* arguments after the first
ExtraPool == { <<LBRACE, BareTok("bad")>>,
               Obj(Member(TEXT, StrV(Hi)) \o Member(OPERATION, StrV(LOWER))) }

Extras == UNION {[1..n -> ExtraPool] : n \in 0..MaxExtra}

Argvs == {PROG} \cup {PROG \o <<a>> \o e : a \in Args, e \in Extras}

\* ------------------------------------------------------------ state machine
Init ==
  /\ argv \in Argvs
  /\ pc = "argc"
  /\ input_data = Unset @@ [d |-> <<>>]
  /\ text = Unset
  /\ operation = Unset
  /\ result = Unset
  /\ stdout = <<>>
  /\ stderr = <<>>
  /\ exit_status = <<>>
  /\ called = {}

Next ==
  \/ CheckArgs
  \/ Loads
  \/ GetText
  \/ GetOperation
  \/ Transform
  \/ PrintResult

Spec == Init /\ [][Next]_vars

\* ------------------------------------------------------------- properties
Terminated == pc = "exited"

HasArg == Len(argv) >= 2

AfterDispatch == pc = "print" \/ (pc = "exited" /\ exit_status = <<0>>)

\* the line {"result": "<s>"} followed by a newline
ResponseLine(s) ==
  <<LBRACE, StringTok(RESULT), COLON, StringTok(s), RBRACE, NEWLINE>>

\* the uppercase and lowercase mappings of a string, code point by code point
RECURSIVE UppercaseMapping(_)
UppercaseMapping(s) ==
  IF s = <<>> THEN <<>> ELSE UpperTable[Head(s)] \o UppercaseMapping(Tail(s))

RECURSIVE LowercaseMapping(_)
LowercaseMapping(s) ==
  IF s = <<>> THEN <<>> ELSE LowercaseMapping(SubSeq(s, 1, Len(s) - 1))
                             \o LowerTable[s[Len(s)]]

\* the code points of s in reverse order
Reversed(s) == [i \in 1..Len(s) |-> s[Len(s) + 1 - i]]

\* C1: a request with string text s and operation "upper", "lower" or
\* "reverse" writes the uppercase mapping of s, the lowercase mapping of s,
\* or the code points of s in reverse order; "Hello" gives "HELLO", "hello"
\* and "olleH".
C1_KnownOperations ==
  (Terminated /\ HasArg) =>
    /\ \A s \in Strings :
         /\ argv[2] \in RequestDocs(StrV(s), StrV(UPPER))
              => stdout = ResponseLine(UppercaseMapping(s))
         /\ argv[2] \in RequestDocs(StrV(s), StrV(LOWER))
              => stdout = ResponseLine(LowercaseMapping(s))
         /\ argv[2] \in RequestDocs(StrV(s), StrV(REVERSE))
              => stdout = ResponseLine(Reversed(s))
    /\ argv[2] \in RequestDocs(StrV(Hello), StrV(UPPER))
         => stdout = ResponseLine(<<"H", "E", "L", "L", "O">>)
    /\ argv[2] \in RequestDocs(StrV(Hello), StrV(LOWER))
         => stdout = ResponseLine(<<"h", "e", "l", "l", "o">>)
    /\ argv[2] \in RequestDocs(StrV(Hello), StrV(REVERSE))
         => stdout = ResponseLine(<<"o", "l", "l", "e", "H">>)

C1_Witness ==
  /\ Terminated
  /\ HasArg
  /\ argv[2] \in RequestDocs(StrV(Hello), StrV(REVERSE))
  /\ stdout = ResponseLine(<<"o", "l", "l", "e", "H">>)

\* C2: with any operation value other than "upper", "lower" and "reverse"
\* (an unknown string, the empty string, a non-string) and any string text
\* s, the run exits 0 and the result is s unchanged.
C2_UnknownIsIdentity ==
  (Terminated /\ HasArg) =>
    \A s \in Strings : \A o \in OtherOps :
      argv[2] \in RequestDocs(StrV(s), o)
        => exit_status = <<0>> /\ stdout = ResponseLine(s)

C2_Witness ==
  /\ Terminated
  /\ HasArg
  /\ argv[2] \in RequestDocs(StrV(Hi), StrV(BOGUS))
  /\ exit_status = <<0>>
  /\ stdout = ResponseLine(Hi)

\* C3: a run with no argument writes the usage message to standard error,
\* exits with status 1, never calls json.loads and writes nothing to
\* standard output.
C3_NoArgument ==
  Len(argv) < 2 =>
    /\ stdout = <<>>
    /\ "json.loads" \notin called
    /\ pc \in {"argc", "exited"}
    /\ Terminated => (stderr = <<"Usage">> /\ exit_status = <<1>>)

C3_Witness ==
  /\ Terminated
  /\ Len(argv) < 2
  /\ stderr = <<"Usage">>
  /\ exit_status = <<1>>

\* C4: when the argument is not well-formed JSON the run exits with status
\* 1 and standard output stays empty at every point of the run.
C4_MalformedJson ==
  (HasArg /\ argv[2] \in MalformedArgs) =>
    /\ stdout = <<>>
    /\ pc \in {"argc", "loads", "exited"}
    /\ Terminated => exit_status = <<1>>

C4_Witness ==
  /\ Terminated
  /\ HasArg
  /\ argv[2] = <<LBRACE, BareTok("bad")>>
  /\ exit_status = <<1>>
  /\ stderr = <<"JSONDecodeError">>

\* C5: an absent "text" is the empty string and an absent "operation" is
\* "upper": {"text": "Hello"} gives "HELLO", {"operation": "reverse"} gives "".
C5_Defaults ==
  HasArg =>
    /\ \A o \in OpOpts :
         argv[2] \in RequestDocs(Absent, o) =>
           /\ pc \in {"get_operation", "dispatch", "print"} => text = StrV(<<>>)
           /\ Terminated => (exit_status = <<0>> /\ stdout = ResponseLine(<<>>))
    /\ \A t \in TextOpts :
         argv[2] \in RequestDocs(t, Absent) =>
           /\ pc \in {"dispatch", "print"} => operation = StrV(UPPER)
           /\ (Terminated /\ t \in StringTexts)
                => stdout = ResponseLine(UppercaseMapping(t.v))
    /\ (Terminated /\ argv[2] = Obj(Member(TEXT, StrV(Hello))))
         => stdout = ResponseLine(<<"H", "E", "L", "L", "O">>)

C5_Witness ==
  /\ Terminated
  /\ HasArg
  /\ argv[2] = Obj(Member(TEXT, StrV(Hello)))
  /\ text = StrV(Hello)
  /\ operation = StrV(UPPER)
  /\ stdout = ResponseLine(<<"H", "E", "L", "L", "O">>)

\* the objects whose "text" is present and is not a string
NonStringTextArgs ==
  UNION {RequestDocs(t, o) : t \in OtherTexts, o \in OpOpts}

\* the objects whose "text" is absent or a string
StringTextArgs ==
  UNION {RequestDocs(t, o) : t \in {Absent} \cup StringTexts, o \in OpOpts}

\* C6 as stated: a non-zero exit status only for a missing argument or
\* malformed JSON; every well-formed JSON argument exits 0.
C6_OnlyTwoErrors ==
  Terminated =>
    /\ exit_status # <<0>> => (Len(argv) < 2 \/ argv[2] \in MalformedArgs)
    /\ (HasArg /\ argv[2] \in ObjectArgs \cup NonObjectArgs)
         => exit_status = <<0>>

\* C6 amended: a non-zero exit status only for a missing argument, malformed
\* JSON, a JSON value that is not an object, or an object whose "text" is
\* present and not a string; every object whose "text" is absent or a
\* string exits 0, whatever its "operation".
C6_ErrorOutcomes ==
  Terminated =>
    /\ exit_status # <<0>> =>
         \/ Len(argv) < 2
         \/ argv[2] \in MalformedArgs
         \/ argv[2] \in NonObjectArgs
         \/ argv[2] \in NonStringTextArgs
    /\ (HasArg /\ argv[2] \in StringTextArgs) => exit_status = <<0>>

C6_Witness ==
  /\ Terminated
  /\ HasArg
  /\ argv[2] \in RequestDocs(StrV(<<"a", "U+00DF">>), IntV("7"))
  /\ exit_status = <<0>>

\* C7: every run that exits 0 has written exactly one line {"result": r}
\* with r a string, and only once the transform has completed.
C7_ResponseShape ==
  /\ stdout # <<>> => (Terminated /\ result # Unset)
  /\ (Terminated /\ exit_status = <<0>>) =>
       /\ Len(stdout) = 6
       /\ stdout[4].k = "string"
       /\ stdout = ResponseLine(stdout[4].v)

\* C8: applying "reverse" to the result of "reverse" on a string s gives s.
C8_ReverseInvolution ==
  (AfterDispatch /\ OpIs(operation, REVERSE) /\ text.t = "str") =>
    transform(result, operation) = [exc |-> "", val |-> text]

C8_Witness ==
  /\ Terminated
  /\ OpIs(operation, REVERSE)
  /\ text = StrV(<<"a", "U+00DF">>)
  /\ result = StrV(<<"U+00DF", "a">>)

\* C9: applying "upper" to the result of "upper" on a string changes
\* nothing, and likewise for "lower".
C9_CaseIdempotent ==
  (AfterDispatch /\ text.t = "str"
     /\ (OpIs(operation, UPPER) \/ OpIs(operation, LOWER))) =>
    transform(result, operation) = [exc |-> "", val |-> result]

C9_Witness ==
  /\ Terminated
  /\ OpIs(operation, UPPER)
  /\ text = StrV(<<"U+00DF", "a">>)
  /\ result = StrV(<<"S", "S", "A">>)

\* the exit status and standard output of the run whose only argument is a
OutcomeOf(a) ==
  LET r == json_loads(a)
      failed == <<<<1>>, <<>>>>
  IN IF ~r.ok \/ r.val.t # "dict" THEN failed
     ELSE LET tr == transform(dict_get(r.val.d, TEXT, StrV(<<>>)),
                              dict_get(r.val.d, OPERATION, StrV(UPPER)))
          IN IF tr.exc # "" THEN failed
             ELSE <<<<0>>, json_dumps(tr.val) \o <<NEWLINE>>>>

\* C10: a run with two or more arguments is not a usage error, and its
\* exit status and standard output are a function of the first argument:
\* they are those of the run given the first argument alone.
C10_ExtraArgumentsIgnored ==
  HasArg =>
    /\ "sys.exit" \notin called
    /\ stderr # <<"Usage">>
    /\ Terminated => <<exit_status, stdout>> = OutcomeOf(argv[2])

C10_Witness ==
  /\ Terminated
  /\ Len(argv) = 4
  /\ argv[3] # argv[4]
  /\ exit_status = <<0>>
  /\ stdout = ResponseLine(<<"S", "S">>)

====
